---- MODULE Spec2Model ----
(***************************************************************************)
(* A model of konstructio/cli-utils.                                       *)
(*                                                                         *)
(*   cfg      a disk-backed key/value store (Config): New, Get*, Set,      *)
(*            GetAll, Finish, with readFromFile and flushUnsafeLocked.     *)
(*                                                                         *)
(* The file is modelled as a sequence of gob messages; a file handle has   *)
(* a position counted in messages.  Data values carry their Go dynamic     *)
(* type, so that Set's normalisation and the accessors' type assertions    *)
(* are computed as the code computes them.                                 *)
(***************************************************************************)
EXTENDS Integers, Sequences, FiniteSets, TLC

(***************************************************************************)
(* Bounds of the model.                                                    *)
(***************************************************************************)
\* most file handles one Config may have opened and not yet closed
MaxOpen == 2

\* the Config instances of the sequential specification (same path)
Stores == {"A", "B"}

\* the keys the callers use
Keys == {"k1", "k2"}

\* the key the callers of two Configs on one path use
OneKey == {"k1"}

\* the threads that share one Config in the concurrent specification
Threads == {"t1", "t2"}

\* most Complete calls made on one Step
MaxCalls == 3

\* the spinner frames the output is known to hold: MaxFrames stands for
\* "MaxFrames or more"
MaxFrames == 2

\* the callers of Complete
Callers == {"c1", "c2"}

\* the caller of the specification whose Complete calls follow one another
OneCaller == {"c1"}

(***************************************************************************)
(* Go values: interface{} values with their dynamic type.                  *)
(* A number is whole + 1/2 if half, so 1.5 is [whole 1, half TRUE] and     *)
(* -2.5 is [whole -3, half TRUE]: such dyadic values are exact in float32  *)
(* and float64.                                                            *)
(***************************************************************************)
GoVal(t, s, b, w, h) == [t |-> t, s |-> s, b |-> b, w |-> w, h |-> h]
Str(s)     == GoVal("string", s, FALSE, 0, FALSE)
Bool(b)    == GoVal("bool", "", b, 0, FALSE)
Num(t, w)  == GoVal(t, "", FALSE, w, FALSE)
Flt(t, w, h) == GoVal(t, "", FALSE, w, h)
Struct     == GoVal("struct", "", FALSE, 0, FALSE)

IntTypes == {"int", "int8", "int16", "int32", "int64"}

\* the values callers pass to Set: one of every shape
Inputs ==
  { Str("a"), Bool(TRUE),
    Num("int", 42), Num("int8", 42), Num("int16", 42), Num("int32", 42),
    Num("int64", 42), Num("uint", 42),
    Flt("float32", 1, TRUE), Flt("float64", -3, TRUE),
    Struct }

\* the values the callers of two Configs on one path pass to Set
FewInputs == { Str("a"), Num("int", 42) }

\* float64(v) for an integer or float32 v: the value is kept (the inputs are
\* far below 2^24, where the conversion is exact), the dynamic type changes
Float64Of(v) == Flt("float64", v.w, v.h)

\* int(v) for a float64 v: truncation toward zero
IntOfFloat64(v) == IF v.h /\ v.w < 0 THEN v.w + 1 ELSE v.w

(***************************************************************************)
(* map[string]interface{}: a nil map, or a function on a set of keys.      *)
(***************************************************************************)
EmptyFcn == [k \in {} |-> Struct]
NilMap   == [nil |-> TRUE, m |-> EmptyFcn]
MakeMap  == [nil |-> FALSE, m |-> EmptyFcn]
MapOf(f) == [nil |-> FALSE, m |-> f]
Has(d, k) == k \in DOMAIN d.m
Put(d, k, v) ==
  [nil |-> FALSE,
   m |-> [x \in (DOMAIN d.m) \cup {k} |-> IF x = k THEN v ELSE d.m[x]]]

(***************************************************************************)
(* Set's type switch: int, int32, int64 and float32 become float64;        *)
(* string, bool and float64 pass; everything else is unsupported.          *)
(***************************************************************************)
NormalizeKeepAll(v) == [ok |-> TRUE, val |-> v]

Normalize(v) ==
  IF v.t \in {"int", "int32", "int64", "float32"}
    THEN [ok |-> TRUE, val |-> Float64Of(v)]
  ELSE IF v.t \in {"string", "bool", "float64"}
    THEN [ok |-> TRUE, val |-> v]
  ELSE [ok |-> FALSE, val |-> v]

(***************************************************************************)
(* The accessors, as functions of the map: (value, found).                 *)
(***************************************************************************)
Ret(v, found) == [val |-> v, found |-> found]

GetString(d, k) ==
  IF ~Has(d, k) THEN Ret(Str(""), FALSE)
  ELSE IF d.m[k].t = "string" THEN Ret(d.m[k], TRUE)
  ELSE Ret(Str(""), FALSE)

GetInt(d, k) ==
  IF ~Has(d, k) THEN Ret(Num("int", 0), FALSE)
  ELSE IF d.m[k].t = "float64" THEN Ret(Num("int", IntOfFloat64(d.m[k])), TRUE)
  ELSE IF d.m[k].t = "int" THEN Ret(d.m[k], TRUE)
  ELSE Ret(Num("int", 0), FALSE)

GetFloat64(d, k) ==
  IF ~Has(d, k) THEN Ret(Flt("float64", 0, FALSE), FALSE)
  ELSE IF d.m[k].t = "float64" THEN Ret(d.m[k], TRUE)
  ELSE Ret(Flt("float64", 0, FALSE), FALSE)

GetBoolOfAny(d, k) ==
  IF ~Has(d, k) THEN Ret(Bool(FALSE), FALSE)
  ELSE IF d.m[k].t = "bool" THEN Ret(d.m[k], TRUE)
  ELSE Ret(Bool(FALSE), TRUE)

GetBool(d, k) ==
  IF ~Has(d, k) THEN Ret(Bool(FALSE), FALSE)
  ELSE IF d.m[k].t = "bool" THEN Ret(d.m[k], TRUE)
  ELSE Ret(Bool(FALSE), FALSE)

Getters == {"GetString", "GetInt", "GetFloat64", "GetBool"}

Get(g, d, k) ==
  CASE g = "GetString"  -> GetString(d, k)
    [] g = "GetInt"     -> GetInt(d, k)
    [] g = "GetFloat64" -> GetFloat64(d, k)
    [] g = "GetBool"    -> GetBool(d, k)

(***************************************************************************)
(* The file: a sequence of gob messages.  A stream written by one Encoder  *)
(* is the type definition of the map type followed by the value.           *)
(*   zero   a zero-length message (a 0x00 byte, as in a zero-filled hole)  *)
(*   junk   bytes that are no gob message                                  *)
(***************************************************************************)
Msg(kind, f) == [msg |-> kind, m |-> f]
TypeDef   == Msg("typedef", EmptyFcn)
Value(f)  == Msg("value", f)
ZeroMsg   == Msg("zero", EmptyFcn)
JunkMsg   == Msg("junk", EmptyFcn)

\* gob.NewEncoder(file).Encode(data): the messages written; a nil map is
\* sent as a map of no entries
Encode(d) == << TypeDef, Value(d.m) >>

\* gob.NewDecoder(file).Decode(&data) on a handle at the start of the file
Decoded(err, d) == [err |-> err, data |-> d]

Decode(bytes) ==
  IF Len(bytes) = 0 THEN Decoded("EOF", NilMap)
  ELSE IF bytes[1].msg = "zero" THEN Decoded("EOF", NilMap)
  ELSE IF bytes[1].msg = "typedef"
    THEN IF Len(bytes) = 1 THEN Decoded("ErrUnexpectedEOF", NilMap)
         ELSE IF bytes[2].msg = "value" THEN Decoded("nil", MapOf(bytes[2].m))
         ELSE Decoded("corrupt", NilMap)
  ELSE Decoded("corrupt", NilMap)

\* a write of msgs through a handle at position pos into a truncated file:
\* past the start, the gap reads as zero bytes
WriteAt(pos, msgs) == IF pos = 0 THEN msgs ELSE << ZeroMsg >> \o msgs

(***************************************************************************)
(* I/O failures the operating system may report, one per operation at     *)
(* most: the named system call of the operation fails, the others succeed. *)
(***************************************************************************)
NoFaults    == {"none"}
ReadFaults  == {"none", "open", "stat", "seek"}
FlushFaults == {"none", "truncate", "seek", "write1", "write2", "sync"}
CloseFaults == FlushFaults \cup {"close"}

OnDisk(exists, bytes) == [exists |-> exists, bytes |-> bytes]

(***************************************************************************)
(* readFromFile up to the assignment of c.data and c.file: what it         *)
(* returns, the map it decoded, the file afterwards (O_CREATE), whether    *)
(* the new handle stays open, and the system calls made.  dec is the       *)
(* outcome of the Decode call, made only when the file is not empty.       *)
(***************************************************************************)
Loaded(err, d, dsk, keep, io) ==
  [err |-> err, data |-> d, disk |-> dsk, keep |-> keep, io |-> io]

LoadFile(dsk, fault, dec) ==
  LET created == OnDisk(TRUE, dsk.bytes)
      nonEmpty == Len(dsk.bytes) > 0
      reads == IF nonEmpty THEN << "open", "stat", "read" >>
               ELSE << "open", "stat" >>
  IN IF fault = "open" THEN Loaded("io", NilMap, dsk, FALSE, << "open" >>)
     ELSE IF fault = "stat"
       THEN Loaded("io", NilMap, created, FALSE, << "open", "stat", "close" >>)
     ELSE IF nonEmpty /\ dec.err # "nil" /\ dec.err # "EOF"
       THEN Loaded("decode", NilMap, created, FALSE, reads \o << "close" >>)
     ELSE IF fault = "seek"
       THEN Loaded("io", NilMap, created, FALSE, reads \o << "seek", "close" >>)
     ELSE Loaded("nil", IF nonEmpty THEN dec.data ELSE MakeMap,
                 created, TRUE, reads \o << "seek" >>)

ReadFromFileNoDecode(dsk, fault) == LoadFile(dsk, fault, Decoded("nil", MakeMap))

ReadFromFile(dsk, fault) == LoadFile(dsk, fault, Decode(dsk.bytes))

(***************************************************************************)
(* flushUnsafeLocked on a Config whose c.file is file ("nil", "open" or    *)
(* "closed": a handle whose Close failed) at position pos: the error       *)
(* returned, the file content and the position afterwards, the calls made. *)
(***************************************************************************)
Flushed(err, bytes, pos, io) ==
  [err |-> err, bytes |-> bytes, pos |-> pos, io |-> io]

FlushNoSeek(file, pos, d, bytes, fault) ==
  IF file = "nil" THEN Flushed("unavailable", bytes, pos, << >>)
  ELSE IF file = "closed" THEN Flushed("io", bytes, pos, << >>)
  ELSE IF fault = "truncate" THEN Flushed("io", bytes, pos, << "truncate" >>)
  ELSE IF fault = "write1"
    THEN Flushed("io", << >>, pos, << "truncate", "write" >>)
  ELSE IF fault = "write2"
    THEN Flushed("io", WriteAt(pos, << Encode(d)[1] >>), pos + 1,
                 << "truncate", "write", "write" >>)
  ELSE Flushed(IF fault = "sync" THEN "io" ELSE "nil",
               WriteAt(pos, Encode(d)), pos + Len(Encode(d)),
               << "truncate", "write", "write", "sync" >>)

FlushUnsafeLocked(file, pos, d, bytes, fault) ==
  IF file = "nil" THEN Flushed("unavailable", bytes, pos, << >>)
  ELSE IF file = "closed" THEN Flushed("io", bytes, pos, << >>)
  ELSE IF fault = "truncate" THEN Flushed("io", bytes, pos, << "truncate" >>)
  ELSE IF fault = "seek" THEN Flushed("io", << >>, pos, << "truncate", "seek" >>)
  ELSE IF fault = "write1"
    THEN Flushed("io", << >>, 0, << "truncate", "seek", "write" >>)
  ELSE IF fault = "write2"
    THEN Flushed("io", WriteAt(0, << Encode(d)[1] >>), 1,
                 << "truncate", "seek", "write", "write" >>)
  ELSE Flushed(IF fault = "sync" THEN "io" ELSE "nil",
               WriteAt(0, Encode(d)), Len(Encode(d)),
               << "truncate", "seek", "write", "write", "sync" >>)

(***************************************************************************)
(* State.                                                                  *)
(*   disk   the file at the path: whether it exists, and its content       *)
(*   cfg    per Config: made (New returned it), data (c.data), file        *)
(*          (c.file: "nil", "open", or "closed" after a failed Close),     *)
(*          pos (the position of c.file)                                   *)
(*   fds    per Config: the handles it opened that are still open          *)
(*   last   the operation that returned last, with what it returned        *)
(*   want   per Config: the map its callers expect, from the content at    *)
(*          New and the Set calls that returned nil since; ok is FALSE     *)
(*          once a Set failed or a GetAll reloaded                         *)
(*   mu     c.mu of the shared Config: the thread holding it, or "none"    *)
(*   pc     per thread: where it is in its operation ("idle": in none)     *)
(*   loc    per thread: the operation's arguments and local variables      *)
(*   step   the Step: name, done, onceComplete ("new", "running" while its  *)
(*          function runs, "done"), chResult and chDone ("open", "closed")  *)
(*   loop   the goroutine of New: where it is, the error it received, and   *)
(*          the position of the spinner                                     *)
(*   output what was written to the output of the Step: the spinner frames  *)
(*          (counted up to MaxFrames), the final lines, and what came last  *)
(*   call   per caller of Complete: where it is, its argument err, its      *)
(*          returnErr, the value of s.done it read, whether it ran the      *)
(*          function of onceComplete, and which call of the Step it is      *)
(*   returned  the Complete call that returned last, with what it returned  *)
(*   calls  the number of Complete calls made on the Step                   *)
(***************************************************************************)
VARIABLES disk, cfg, fds, last, want, mu, pc, loc,
          step, loop, output, call, returned, calls

vars == << disk, cfg, fds, last, want, mu, pc, loc,
           step, loop, output, call, returned, calls >>

\* the state of the Step, of its goroutine and of its callers
stepper == << step, loop, output, call, returned, calls >>

\* the state of the threads that share one Config, and what no operation
\* of a Config touches
conc == << mu, pc, loc, stepper >>

\* the state of the Configs and of their threads
config == << disk, cfg, fds, last, want, mu, pc, loc >>

Op(op, s, k, v, ret, out, all, io) ==
  [op |-> op, s |-> s, k |-> k, v |-> v, ret |-> ret, out |-> out,
   all |-> all, io |-> io]

NoOut == Ret(Struct, FALSE)
NoOp  == Op("none", "", "", Struct, "nil", NoOut, EmptyFcn, << >>)

NoConfig == [made |-> FALSE, data |-> NilMap, file |-> "nil", pos |-> 0]

Unknown == [ok |-> FALSE, m |-> EmptyFcn]

Local(op, k, v, size, d) == [op |-> op, k |-> k, v |-> v, size |-> size, data |-> d]
NoLocal == Local("none", "", Struct, 0, NilMap)

(***************************************************************************)
(* The Step.  An error is its dynamic type and what it carries: the text   *)
(* of an errors.New, the Name of an AlreadyCompletedError.                 *)
(***************************************************************************)
Error(type, text) == [type |-> type, text |-> text]
Nil == Error("nil", "")
AlreadyCompletedError(name) == Error("AlreadyCompletedError", name)

\* the errors the callers complete a Step with
Errs == {Nil, Error("errorString", "test error")}

\* the error of the callers under fair scheduling, where the value of the
\* error decides nothing
OneErr == {Nil}

\* the name the Step was made with
StepName == "Test Step"

\* the clock faces the spinner was set to
NumFrames == 12

\* the line the goroutine writes for the result it received
FinalLine(name, err) ==
  IF err = Nil THEN << "\r", "ok ", name, "\n" >>
  ELSE << "\r", "failed ", name, " - error: ", err.text, "\n" >>

Call(at, err, returnErr, read, ran, n) ==
  [pc |-> at, err |-> err, returnErr |-> returnErr, read |-> read, ran |-> ran,
   n |-> n]
NoCall == Call("idle", Nil, Nil, 0, FALSE, 0)

Returned(c, n, err, val, ran) ==
  [c |-> c, n |-> n, err |-> err, val |-> val, ran |-> ran]
NoReturn == Returned("", 0, Nil, Nil, FALSE)

\* the Step as New returns it, its goroutine started
StepNew ==
  /\ step = [name |-> StepName, done |-> 0, onceComplete |-> "new",
             chResult |-> "open", chDone |-> "open"]
  /\ loop = [pc |-> "select", err |-> Nil, pos |-> 0]
  /\ output = [frames |-> 0, lines |-> << >>, last |-> "none"]
  /\ call = [c \in Callers |-> NoCall]
  /\ returned = NoReturn
  /\ calls = 0

\* what the file may hold before the program first runs
InitialBytes == { << >>, << JunkMsg >>, << ZeroMsg >>, << TypeDef >> }

Init ==
  /\ \E b \in InitialBytes : disk = OnDisk(b # << >>, b)
  /\ cfg = [s \in Stores |-> NoConfig]
  /\ fds = [s \in Stores |-> 0]
  /\ last = NoOp
  /\ want = [s \in Stores |-> Unknown]
  /\ mu = "none"
  /\ pc = [t \in Threads |-> "idle"]
  /\ loc = [t \in Threads |-> NoLocal]
  /\ StepNew

\* every operation records itself in last as it returns
Record(o) == last' = o

(***************************************************************************)
(* New(path): a Config only if readFromFile succeeded.                     *)
(***************************************************************************)
New(s, faults) ==
  \E fault \in faults :
    LET r == ReadFromFile(disk, fault)
    IN /\ ~cfg[s].made
       /\ disk' = r.disk
       /\ IF r.err = "nil"
            THEN /\ cfg' = [cfg EXCEPT ![s] =
                      [made |-> TRUE, data |-> r.data, file |-> "open", pos |-> 0]]
                 /\ fds' = [fds EXCEPT ![s] = 1]
                 /\ want' = [want EXCEPT ![s] = [ok |-> TRUE, m |-> r.data.m]]
            ELSE UNCHANGED << cfg, fds, want >>
       /\ Record(Op("New", s, "", Struct, r.err, NoOut, EmptyFcn, r.io))
       /\ UNCHANGED conc

(***************************************************************************)
(* GetString, GetInt, GetFloat64, GetBool: no state but the result.        *)
(***************************************************************************)
GetOp(s, g, keys) ==
  \E k \in keys :
    /\ cfg[s].made
    /\ Record(Op(g, s, k, Struct, "nil", Get(g, cfg[s].data, k), EmptyFcn, << >>))
    /\ UNCHANGED << disk, cfg, fds, want, conc >>

(***************************************************************************)
(* Set(key, value) on a Config c when the file holds bytes: the error      *)
(* returned ("panic" for the assignment to an entry in a nil map), and     *)
(* c.data, the position of c.file and the file content afterwards.         *)
(***************************************************************************)
Outcome(ret, d, file, pos, bytes, io) ==
  [ret |-> ret, data |-> d, file |-> file, pos |-> pos, bytes |-> bytes, io |-> io]

SetRollsBack(c, k, v, bytes, fault) ==
  LET n == Normalize(v)
      d == Put(c.data, k, n.val)
      f == FlushUnsafeLocked(c.file, c.pos, d, bytes, fault)
  IN IF ~n.ok THEN Outcome("TypeError", c.data, c.file, c.pos, bytes, << >>)
     ELSE IF c.data.nil THEN Outcome("panic", c.data, c.file, c.pos, bytes, << >>)
     ELSE IF f.err # "nil" THEN Outcome(f.err, c.data, c.file, f.pos, f.bytes, f.io)
     ELSE Outcome(f.err, d, c.file, f.pos, f.bytes, f.io)

SetResult(c, k, v, bytes, fault) ==
  LET n == Normalize(v)
      d == Put(c.data, k, n.val)
      f == FlushUnsafeLocked(c.file, c.pos, d, bytes, fault)
  IN IF ~n.ok THEN Outcome("TypeError", c.data, c.file, c.pos, bytes, << >>)
     ELSE IF c.data.nil THEN Outcome("panic", c.data, c.file, c.pos, bytes, << >>)
     ELSE Outcome(f.err, d, c.file, f.pos, f.bytes, f.io)

Set(s, keys, vals, faults) ==
  \E k \in keys, v \in vals, fault \in faults :
    LET r == SetResult(cfg[s], k, v, disk.bytes, fault)
    IN /\ cfg[s].made
       /\ cfg' = [cfg EXCEPT ![s].data = r.data, ![s].pos = r.pos]
       /\ disk' = OnDisk(disk.exists, r.bytes)
       /\ want' = [want EXCEPT ![s] =
            IF r.ret = "nil"
              THEN [ok |-> want[s].ok,
                    m |-> IF want[s].ok
                            THEN Put(MapOf(want[s].m), k, Normalize(v).val).m
                            ELSE EmptyFcn]
            ELSE IF r.ret = "TypeError" THEN want[s]
            ELSE Unknown]
       /\ Record(Op("Set", s, k, v, r.ret, NoOut, EmptyFcn, r.io))
       /\ UNCHANGED << fds, conc >>

(***************************************************************************)
(* Finish() on a Config c: the error returned ("closed": already closed),  *)
(* c.file and its position and the file content afterwards.                *)
(***************************************************************************)
FinishKeepsFile(c, bytes, fault) ==
  LET f == FlushUnsafeLocked(c.file, c.pos, c.data, bytes, fault)
  IN IF c.file = "nil" THEN Outcome("closed", c.data, c.file, c.pos, bytes, << >>)
     ELSE IF f.err # "nil" THEN Outcome("io", c.data, c.file, f.pos, f.bytes, f.io)
     ELSE IF fault = "close"
       THEN Outcome("io", c.data, "closed", f.pos, f.bytes, f.io \o << "close" >>)
     ELSE Outcome("nil", c.data, c.file, f.pos, f.bytes, f.io \o << "close" >>)

FinishResult(c, bytes, fault) ==
  LET f == FlushUnsafeLocked(c.file, c.pos, c.data, bytes, fault)
  IN IF c.file = "nil" THEN Outcome("closed", c.data, c.file, c.pos, bytes, << >>)
     ELSE IF f.err # "nil" THEN Outcome("io", c.data, c.file, f.pos, f.bytes, f.io)
     ELSE IF fault = "close"
       THEN Outcome("io", c.data, "closed", f.pos, f.bytes, f.io \o << "close" >>)
     ELSE Outcome("nil", c.data, "nil", f.pos, f.bytes, f.io \o << "close" >>)

\* the handles a Config holds open: one fewer once the Close call was made
Released(io) == IF Len(io) > 0 /\ io[Len(io)] = "close" THEN 1 ELSE 0

Finish(s, faults) ==
  \E fault \in faults :
    LET r == FinishResult(cfg[s], disk.bytes, fault)
    IN /\ cfg[s].made
       /\ cfg' = [cfg EXCEPT ![s].file = r.file, ![s].pos = r.pos]
       /\ disk' = OnDisk(disk.exists, r.bytes)
       /\ fds' = [fds EXCEPT ![s] = @ - Released(r.io)]
       /\ Record(Op("Finish", s, "", Struct, r.ret, NoOut, EmptyFcn, r.io))
       /\ UNCHANGED << want, conc >>

(***************************************************************************)
(* GetAll(): readFromFile, then a copy of c.data.                          *)
(***************************************************************************)
GetAllAssignsFirst(s, faults) ==
  \E fault \in faults :
    LET r == ReadFromFile(disk, fault)
    IN /\ cfg[s].made
       /\ fds[s] < MaxOpen
       /\ disk' = r.disk
       /\ UNCHANGED conc
       /\ cfg' = [cfg EXCEPT ![s].data = r.data, ![s].file = "open",
                             ![s].pos = 0]
       /\ IF r.err = "nil"
            THEN /\ fds' = [fds EXCEPT ![s] = @ + 1]
                 /\ want' = [want EXCEPT ![s] = Unknown]
                 /\ Record(Op("GetAll", s, "", Struct, "nil", NoOut, r.data.m, r.io))
            ELSE /\ Record(Op("GetAll", s, "", Struct, r.err, NoOut, EmptyFcn, r.io))
                 /\ UNCHANGED << fds, want >>

GetAll(s, faults) ==
  \E fault \in faults :
    LET r == ReadFromFile(disk, fault)
    IN /\ cfg[s].made
       /\ fds[s] < MaxOpen
       /\ disk' = r.disk
       /\ UNCHANGED conc
       /\ IF r.err = "nil"
            THEN /\ cfg' = [cfg EXCEPT ![s].data = r.data, ![s].file = "open",
                                       ![s].pos = 0]
                 /\ fds' = [fds EXCEPT ![s] = @ + 1]
                 /\ want' = [want EXCEPT ![s] = Unknown]
                 /\ Record(Op("GetAll", s, "", Struct, "nil", NoOut, r.data.m, r.io))
            ELSE /\ Record(Op("GetAll", s, "", Struct, r.err, NoOut, EmptyFcn, r.io))
                 /\ UNCHANGED << cfg, fds, want >>

(***************************************************************************)
(* Spec: two Configs on one path, their operations one after another, on   *)
(* a system whose I/O does not fail.                                       *)
(***************************************************************************)
Next ==
  \/ \E s \in Stores : New(s, NoFaults)
  \/ \E s \in Stores : GetOp(s, "GetString", OneKey)
  \/ \E s \in Stores : GetOp(s, "GetInt", OneKey)
  \/ \E s \in Stores : GetOp(s, "GetFloat64", OneKey)
  \/ \E s \in Stores : GetOp(s, "GetBool", OneKey)
  \/ \E s \in Stores : Set(s, OneKey, FewInputs, NoFaults)
  \/ \E s \in Stores : Finish(s, NoFaults)
  \/ \E s \in Stores : GetAll(s, NoFaults)

Spec == Init /\ [][Next]_vars

(***************************************************************************)
(* SpecShapes: one Config, Set called with values of every shape.          *)
(***************************************************************************)
NextShapes ==
  \/ New("A", NoFaults)
  \/ GetOp("A", "GetString", Keys)
  \/ GetOp("A", "GetInt", Keys)
  \/ GetOp("A", "GetFloat64", Keys)
  \/ GetOp("A", "GetBool", Keys)
  \/ Set("A", Keys, Inputs, NoFaults)
  \/ Finish("A", NoFaults)
  \/ GetAll("A", NoFaults)

SpecShapes == Init /\ [][NextShapes]_vars

(***************************************************************************)
(* SpecFaults: one Config on a system whose I/O may fail.                  *)
(***************************************************************************)
NextFaults ==
  \/ New("A", ReadFaults)
  \/ GetOp("A", "GetString", Keys)
  \/ GetOp("A", "GetInt", Keys)
  \/ GetOp("A", "GetFloat64", Keys)
  \/ GetOp("A", "GetBool", Keys)
  \/ Set("A", Keys, FewInputs, FlushFaults)
  \/ Finish("A", CloseFaults)
  \/ GetAll("A", ReadFaults)

SpecFaults == Init /\ [][NextFaults]_vars

(***************************************************************************)
(* Threads sharing the Config "A".  An operation is cut where another      *)
(* thread can see or change what it works on: Set and Finish hold c.mu     *)
(* from their first step to their return, while their writes to the file   *)
(* are seen by a readFromFile, which reads the file and decodes it without *)
(* the lock; the accessors run under the read lock in one step.            *)
(***************************************************************************)
Shared == "A"

Return(t, o) ==
  /\ last' = o
  /\ pc' = [pc EXCEPT ![t] = "idle"]
  /\ loc' = [loc EXCEPT ![t] = NoLocal]
  /\ UNCHANGED stepper

Goto(t, label, l) ==
  /\ pc' = [pc EXCEPT ![t] = label]
  /\ loc' = [loc EXCEPT ![t] = l]
  /\ UNCHANGED stepper

\* GetString, GetInt, GetFloat64, GetBool: RLock, read, RUnlock
CGet(t) ==
  \E g \in Getters, k \in OneKey :
    /\ pc[t] = "idle" /\ mu = "none"
    /\ Return(t, Op(g, Shared, k, Struct, "nil", Get(g, cfg[Shared].data, k),
                    EmptyFcn, << >>))
    /\ UNCHANGED << disk, cfg, fds, want, mu >>

\* Set: Lock, the type switch, c.data[key] = value
CSetLock(t) ==
  \E k \in OneKey, v \in FewInputs \cup {Struct} :
    LET n == Normalize(v)
        forgotten == [x \in (DOMAIN want[Shared].m) \ {k} |-> want[Shared].m[x]]
    IN /\ pc[t] = "idle" /\ mu = "none"
       /\ IF ~n.ok
            THEN /\ Return(t, Op("Set", Shared, k, v, "TypeError", NoOut, EmptyFcn, << >>))
                 /\ UNCHANGED << cfg, want, mu >>
          ELSE IF cfg[Shared].data.nil
            THEN /\ Return(t, Op("Set", Shared, k, v, "panic", NoOut, EmptyFcn, << >>))
                 /\ want' = [want EXCEPT ![Shared].m = forgotten]
                 /\ UNCHANGED << cfg, mu >>
          ELSE /\ cfg' = [cfg EXCEPT ![Shared].data = Put(@, k, n.val)]
               /\ want' = [want EXCEPT ![Shared].m = forgotten]
               /\ mu' = t
               /\ Goto(t, "truncate", Local("Set", k, v, 0, NilMap))
               /\ UNCHANGED last
       /\ UNCHANGED << disk, fds >>

\* Finish: Lock, the check of c.file
CFinishLock(t) ==
  /\ pc[t] = "idle" /\ mu = "none"
  /\ IF cfg[Shared].file = "nil"
       THEN /\ Return(t, Op("Finish", Shared, "", Struct, "closed", NoOut, EmptyFcn, << >>))
            /\ UNCHANGED mu
       ELSE /\ mu' = t
            /\ Goto(t, "truncate", Local("Finish", "", Struct, 0, NilMap))
            /\ UNCHANGED last
  /\ UNCHANGED << disk, cfg, fds, want >>

\* flushUnsafeLocked: the check of c.file, Truncate(0), Seek(0, 0)
CTruncate(t) ==
  /\ pc[t] = "truncate"
  /\ IF cfg[Shared].file # "open"
       THEN /\ Return(t, Op(loc[t].op, Shared, loc[t].k, loc[t].v,
                            IF cfg[Shared].file = "nil" THEN "unavailable" ELSE "io",
                            NoOut, EmptyFcn, << >>))
            /\ mu' = "none"
            /\ UNCHANGED << disk, cfg >>
       ELSE /\ disk' = OnDisk(disk.exists, << >>)
            /\ cfg' = [cfg EXCEPT ![Shared].pos = 0]
            /\ Goto(t, "write1", loc[t])
            /\ UNCHANGED << last, mu >>
  /\ UNCHANGED << fds, want >>

\* Encode: the message that defines the map type
CWrite1(t) ==
  /\ pc[t] = "write1"
  /\ disk' = OnDisk(disk.exists, WriteAt(cfg[Shared].pos, << Encode(cfg[Shared].data)[1] >>))
  /\ cfg' = [cfg EXCEPT ![Shared].pos = @ + 1]
  /\ Goto(t, "write2", loc[t])
  /\ UNCHANGED << fds, last, want, mu >>

\* Encode: the message that holds the map
CWrite2(t) ==
  /\ pc[t] = "write2"
  /\ disk' = OnDisk(disk.exists, disk.bytes \o << Encode(cfg[Shared].data)[2] >>)
  /\ cfg' = [cfg EXCEPT ![Shared].pos = @ + 1]
  /\ Goto(t, "sync", loc[t])
  /\ UNCHANGED << fds, last, want, mu >>

\* Set: Sync, return nil, Unlock
CSetReturn(t) ==
  /\ pc[t] = "sync" /\ loc[t].op = "Set"
  /\ Return(t, Op("Set", Shared, loc[t].k, loc[t].v, "nil", NoOut, EmptyFcn,
                  << "truncate", "seek", "write", "write", "sync" >>))
  /\ want' = [want EXCEPT ![Shared].m =
                Put(MapOf(@), loc[t].k, Normalize(loc[t].v).val).m]
  /\ mu' = "none"
  /\ UNCHANGED << disk, cfg, fds >>

\* Finish: Sync, c.file.Close(), c.file = nil, return nil, Unlock
CFinishClose(t) ==
  /\ pc[t] = "sync" /\ loc[t].op = "Finish"
  /\ Return(t, Op("Finish", Shared, "", Struct, "nil", NoOut, EmptyFcn,
                  << "truncate", "seek", "write", "write", "sync", "close" >>))
  /\ cfg' = [cfg EXCEPT ![Shared].file = "nil"]
  /\ fds' = [fds EXCEPT ![Shared] = @ - 1]
  /\ mu' = "none"
  /\ UNCHANGED << disk, want >>

\* GetAll, readFromFile: os.OpenFile
CGetAllOpen(t) ==
  /\ pc[t] = "idle"
  /\ fds[Shared] < MaxOpen
  /\ fds' = [fds EXCEPT ![Shared] = @ + 1]
  /\ disk' = OnDisk(TRUE, disk.bytes)
  /\ Goto(t, "stat", Local("GetAll", "", Struct, 0, NilMap))
  /\ UNCHANGED << cfg, last, want, mu >>

\* readFromFile: file.Stat
CGetAllStat(t) ==
  /\ pc[t] = "stat"
  /\ Goto(t, "decode", [loc[t] EXCEPT !.size = Len(disk.bytes)])
  /\ UNCHANGED << disk, cfg, fds, last, want, mu >>

\* readFromFile: Decode if the size was not zero, and Seek(0, 0)
CGetAllDecode(t) ==
  LET dec == Decode(disk.bytes)
  IN /\ pc[t] = "decode"
     /\ IF loc[t].size > 0 /\ dec.err # "nil" /\ dec.err # "EOF"
          THEN /\ Return(t, Op("GetAll", Shared, "", Struct, "decode", NoOut, EmptyFcn,
                               << "open", "stat", "read", "close" >>))
               /\ fds' = [fds EXCEPT ![Shared] = @ - 1]
          ELSE /\ Goto(t, "assign",
                       [loc[t] EXCEPT !.data = IF loc[t].size > 0 THEN dec.data
                                               ELSE MakeMap])
               /\ UNCHANGED << fds, last >>
     /\ UNCHANGED << disk, cfg, want, mu >>

\* readFromFile: Lock, c.data = data, c.file = file, Unlock
CGetAllAssign(t) ==
  /\ pc[t] = "assign" /\ mu = "none"
  /\ cfg' = [cfg EXCEPT ![Shared].data = loc[t].data, ![Shared].file = "open",
                        ![Shared].pos = 0]
  /\ Goto(t, "len", loc[t])
  /\ UNCHANGED << disk, fds, last, want, mu >>

\* GetAll: make(map, len(c.data)), c.data read without the lock
CGetAllLen(t) ==
  /\ pc[t] = "len"
  /\ Goto(t, "copy", [loc[t] EXCEPT !.size = Cardinality(DOMAIN cfg[Shared].data.m)])
  /\ UNCHANGED << disk, cfg, fds, last, want, mu >>

\* GetAll: RLock, the copy, RUnlock, return
CGetAllCopy(t) ==
  /\ pc[t] = "copy" /\ mu = "none"
  /\ Return(t, Op("GetAll", Shared, "", Struct, "nil", NoOut, cfg[Shared].data.m,
                  << "open", "stat", "read", "seek" >>))
  /\ UNCHANGED << disk, cfg, fds, want, mu >>

\* the Config "A" as New returned it on a path that had no file
InitConc ==
  /\ disk = OnDisk(TRUE, << >>)
  /\ cfg = [s \in Stores |->
             IF s = Shared
               THEN [made |-> TRUE, data |-> MakeMap, file |-> "open", pos |-> 0]
               ELSE NoConfig]
  /\ fds = [s \in Stores |-> IF s = Shared THEN 1 ELSE 0]
  /\ last = Op("New", Shared, "", Struct, "nil", NoOut, EmptyFcn,
               << "open", "stat", "seek" >>)
  /\ want = [s \in Stores |-> IF s = Shared THEN [ok |-> TRUE, m |-> EmptyFcn]
                              ELSE Unknown]
  /\ mu = "none"
  /\ pc = [t \in Threads |-> "idle"]
  /\ loc = [t \in Threads |-> NoLocal]
  /\ StepNew

NextConc ==
  \/ \E t \in Threads : CGet(t)
  \/ \E t \in Threads : CSetLock(t)
  \/ \E t \in Threads : CFinishLock(t)
  \/ \E t \in Threads : CTruncate(t)
  \/ \E t \in Threads : CWrite1(t)
  \/ \E t \in Threads : CWrite2(t)
  \/ \E t \in Threads : CSetReturn(t)
  \/ \E t \in Threads : CFinishClose(t)
  \/ \E t \in Threads : CGetAllOpen(t)
  \/ \E t \in Threads : CGetAllStat(t)
  \/ \E t \in Threads : CGetAllDecode(t)
  \/ \E t \in Threads : CGetAllAssign(t)
  \/ \E t \in Threads : CGetAllLen(t)
  \/ \E t \in Threads : CGetAllCopy(t)

SpecConc == InitConc /\ [][NextConc]_vars

(***************************************************************************)
(* The Step.  New starts the goroutine, which runs beside the callers of   *)
(* Complete.  Complete is cut at every access to what the callers and the  *)
(* goroutine share: s.done (read, written and read again with no lock),    *)
(* onceComplete, chResult and chDone.  chResult has no buffer: a caller    *)
(* at "send" waits in its send until the goroutine receives.  s.done is a  *)
(* uint32 and wraps after 2^32 calls, which MaxCalls keeps out of reach.   *)
(***************************************************************************)
Sending == {c \in Callers : call[c].pc = "send"}

\* the goroutine: select finds no sender, writes the next frame and sleeps
LoopDraw ==
  /\ loop.pc = "select" /\ Sending = {}
  /\ loop' = [loop EXCEPT !.pos = (@ + 1) % NumFrames]
  /\ output' = [output EXCEPT
                  !.frames = IF @ < MaxFrames THEN @ + 1 ELSE @,
                  !.last = "frame"]
  /\ UNCHANGED << config, step, call, returned, calls >>

\* the goroutine: select receives the error a caller is sending
LoopReceive ==
  \E c \in Sending :
    /\ loop.pc = "select"
    /\ loop' = [loop EXCEPT !.pc = "print", !.err = call[c].err]
    /\ call' = [call EXCEPT ![c].pc = "close"]
    /\ UNCHANGED << config, step, output, returned, calls >>

\* the goroutine: the final line for the error received
LoopPrint ==
  /\ loop.pc = "print"
  /\ output' = [output EXCEPT
                  !.lines = Append(@, FinalLine(step.name, loop.err)),
                  !.last = "line"]
  /\ loop' = [loop EXCEPT !.pc = "return"]
  /\ UNCHANGED << config, step, call, returned, calls >>

\* the goroutine: return, and the deferred close(chDone)
LoopExitNoClose ==
  /\ loop.pc = "return"
  /\ loop' = [loop EXCEPT !.pc = "exited"]
  /\ UNCHANGED << config, step, output, call, returned, calls >>

LoopExit ==
  /\ loop.pc = "return"
  /\ step' = [step EXCEPT !.chDone = "closed"]
  /\ loop' = [loop EXCEPT !.pc = "exited"]
  /\ UNCHANGED << config, output, call, returned, calls >>

\* a caller calls Complete(err)
CompleteCall(c, errs) ==
  \E err \in errs :
    /\ call[c].pc = "idle" /\ calls < MaxCalls
    /\ calls' = calls + 1
    /\ call' = [call EXCEPT ![c] = Call("load", err, Nil, 0, FALSE, calls + 1)]
    /\ UNCHANGED << config, step, loop, output, returned >>

\* s.done++: the read of s.done
CompleteLoad(c) ==
  /\ call[c].pc = "load"
  /\ call' = [call EXCEPT ![c].pc = "store", ![c].read = step.done]
  /\ UNCHANGED << config, step, loop, output, returned, calls >>

\* s.done++: the write of s.done
CompleteStore(c) ==
  /\ call[c].pc = "store"
  /\ step' = [step EXCEPT !.done = call[c].read + 1]
  /\ call' = [call EXCEPT ![c].pc = "check"]
  /\ UNCHANGED << config, loop, output, returned, calls >>

\* s.done > 1: returnErr = &AlreadyCompletedError{Name: s.name}
CompleteCheckNever(c) ==
  /\ call[c].pc = "check"
  /\ call' = [call EXCEPT ![c].pc = "do"]
  /\ UNCHANGED << config, step, loop, output, returned, calls >>

CompleteCheck(c) ==
  /\ call[c].pc = "check"
  /\ call' = [call EXCEPT ![c].pc = "do",
                          ![c].returnErr = IF step.done > 1
                                             THEN AlreadyCompletedError(step.name)
                                             ELSE @]
  /\ UNCHANGED << config, step, loop, output, returned, calls >>

\* onceComplete.Do: the first caller runs the function, a caller that finds
\* it running waits until it has returned, a later caller skips it
CompleteDo(c) ==
  /\ call[c].pc = "do" /\ step.onceComplete # "running"
  /\ IF step.onceComplete = "new"
       THEN /\ step' = [step EXCEPT !.onceComplete = "running"]
            /\ call' = [call EXCEPT ![c].pc = "send", ![c].ran = TRUE]
       ELSE /\ call' = [call EXCEPT ![c].pc = "return"]
            /\ UNCHANGED step
  /\ UNCHANGED << config, loop, output, returned, calls >>

\* close(s.chResult), after the send was received
CompleteClose(c) ==
  /\ call[c].pc = "close"
  /\ step' = [step EXCEPT !.chResult = "closed"]
  /\ call' = [call EXCEPT ![c].pc = "wait"]
  /\ UNCHANGED << config, loop, output, returned, calls >>

\* <-s.chDone, returnErr = err, and the function of onceComplete returns
CompleteNoWait(c) ==
  /\ call[c].pc = "wait"
  /\ step' = [step EXCEPT !.onceComplete = "done"]
  /\ call' = [call EXCEPT ![c].pc = "return", ![c].returnErr = call[c].err]
  /\ UNCHANGED << config, loop, output, returned, calls >>

CompleteWait(c) ==
  /\ call[c].pc = "wait" /\ step.chDone = "closed"
  /\ step' = [step EXCEPT !.onceComplete = "done"]
  /\ call' = [call EXCEPT ![c].pc = "return", ![c].returnErr = call[c].err]
  /\ UNCHANGED << config, loop, output, returned, calls >>

\* return returnErr
CompleteReturn(c) ==
  /\ call[c].pc = "return"
  /\ returned' = Returned(c, call[c].n, call[c].err, call[c].returnErr, call[c].ran)
  /\ call' = [call EXCEPT ![c] = NoCall]
  /\ UNCHANGED << config, step, loop, output, calls >>

\* a program that has made no Config and one Step
InitStep ==
  /\ disk = OnDisk(FALSE, << >>)
  /\ cfg = [s \in Stores |-> NoConfig]
  /\ fds = [s \in Stores |-> 0]
  /\ last = NoOp
  /\ want = [s \in Stores |-> Unknown]
  /\ mu = "none"
  /\ pc = [t \in Threads |-> "idle"]
  /\ loc = [t \in Threads |-> NoLocal]
  /\ StepNew

Loop == LoopDraw \/ LoopReceive \/ LoopPrint \/ LoopExit

\* the steps of a Complete call once it was made
Complete(c) ==
  \/ CompleteLoad(c) \/ CompleteStore(c) \/ CompleteCheck(c) \/ CompleteDo(c)
  \/ CompleteClose(c) \/ CompleteWait(c) \/ CompleteReturn(c)

(***************************************************************************)
(* SpecStep: one caller, whose Complete calls follow one another.          *)
(***************************************************************************)
NextStep ==
  \/ LoopDraw
  \/ LoopReceive
  \/ LoopPrint
  \/ LoopExit
  \/ \E c \in OneCaller : CompleteCall(c, Errs)
  \/ \E c \in OneCaller : CompleteLoad(c)
  \/ \E c \in OneCaller : CompleteStore(c)
  \/ \E c \in OneCaller : CompleteCheck(c)
  \/ \E c \in OneCaller : CompleteDo(c)
  \/ \E c \in OneCaller : CompleteClose(c)
  \/ \E c \in OneCaller : CompleteWait(c)
  \/ \E c \in OneCaller : CompleteReturn(c)

SpecStep == InitStep /\ [][NextStep]_vars

(***************************************************************************)
(* SpecStepConc: callers whose Complete calls overlap.                     *)
(***************************************************************************)
NextStepConc ==
  \/ LoopDraw
  \/ LoopReceive
  \/ LoopPrint
  \/ LoopExit
  \/ \E c \in Callers : CompleteCall(c, Errs)
  \/ \E c \in Callers : CompleteLoad(c)
  \/ \E c \in Callers : CompleteStore(c)
  \/ \E c \in Callers : CompleteCheck(c)
  \/ \E c \in Callers : CompleteDo(c)
  \/ \E c \in Callers : CompleteClose(c)
  \/ \E c \in Callers : CompleteWait(c)
  \/ \E c \in Callers : CompleteReturn(c)

SpecStepConc == InitStep /\ [][NextStepConc]_vars

(***************************************************************************)
(* SpecStepFair: the scheduler lets the goroutine and every caller that is *)
(* in a Complete call run again and again; no caller has to call Complete. *)
(***************************************************************************)
NextStepFair ==
  \/ LoopDraw
  \/ LoopReceive
  \/ LoopPrint
  \/ LoopExit
  \/ \E c \in Callers : CompleteCall(c, OneErr)
  \/ \E c \in Callers : CompleteLoad(c)
  \/ \E c \in Callers : CompleteStore(c)
  \/ \E c \in Callers : CompleteCheck(c)
  \/ \E c \in Callers : CompleteDo(c)
  \/ \E c \in Callers : CompleteClose(c)
  \/ \E c \in Callers : CompleteWait(c)
  \/ \E c \in Callers : CompleteReturn(c)

SpecStepFair ==
  /\ InitStep /\ [][NextStepFair]_vars
  /\ WF_vars(Loop)
  /\ \A c \in Callers : WF_vars(Complete(c))

(***************************************************************************)
(* The properties.                                                         *)
(***************************************************************************)
\* the shapes the specification calls supported, and its normalisation
ClaimedShapes == {"string", "bool", "float32", "float64"} \cup IntTypes
Canonical(v) == IF v.t \in IntTypes \cup {"float32"} THEN Float64Of(v) ELSE v

\* the accessors that match a value, and what each is to return for it
Matching(v) ==
  CASE v.t = "string" -> {"GetString"}
    [] v.t = "bool" -> {"GetBool"}
    [] v.t \in IntTypes -> {"GetInt", "GetFloat64"}
    [] v.t \in {"float32", "float64"} -> {"GetFloat64"}
    [] OTHER -> {}
Expected(g, v) ==
  IF g = "GetInt" THEN Ret(Num("int", Canonical(v).w), TRUE)
  ELSE Ret(Canonical(v), TRUE)

\* an open Config: New returned it and c.file is an open handle
IsOpen(s) == cfg[s].made /\ cfg[s].file = "open"

\* C1 (as claimed): on an open Config with a map, Set with a value of any
\* supported shape (text, boolean, a signed integer of any width, float32,
\* float64) returns nil, and the matching accessor called next returns the
\* value converted to float64 (as an int for GetInt) with found = TRUE.
C1_SetThenGet ==
  [][ /\ ( /\ last'.op = "Set" /\ last'.v.t \in ClaimedShapes
           /\ IsOpen(last'.s) /\ ~cfg[last'.s].data.nil )
         => last'.ret = "nil"
      /\ ( /\ last.op = "Set" /\ last.v.t \in ClaimedShapes
           /\ IsOpen(last.s) /\ ~cfg[last.s].data.nil
           /\ last'.op \in Matching(last.v) /\ last'.s = last.s /\ last'.k = last.k )
         => last'.out = Expected(last'.op, last.v) ]_vars

\* C2: a Set with a value that is no text, number or boolean returns the
\* type error, makes no system call and changes neither the Config (its
\* map keeps its keys and values, the rejected key is not added) nor the file.
C2_UnsupportedRejected ==
  [][ (last'.op = "Set" /\ last'.v.t = "struct")
        => /\ last'.ret = "TypeError"
           /\ last'.io = << >>
           /\ cfg' = cfg
           /\ disk' = disk ]_vars

C2_Witness ==
  /\ last.op = "Set" /\ last.v.t = "struct" /\ last.ret = "TypeError"
  /\ ~Has(cfg[last.s].data, last.k)
  /\ \E k \in Keys : Has(cfg[last.s].data, k)
  /\ Len(disk.bytes) > 0

\* the accessor of the type of a stored value
AccessorOf(v) == CHOOSE g \in Getters : g # "GetInt" /\ Get(g, MapOf([k \in {"k"} |-> v]), "k").found

\* C3: when a Finish has returned nil on a Config whose Set calls all
\* returned nil and a New on the same path returns next, the new Config
\* finds every key that was Set with the last value Set for it, and finds
\* no other key but those the file held when the first Config was opened.
C3_PersistsAcrossReopen ==
  [][ ( /\ last.op = "Finish" /\ last.ret = "nil" /\ want[last.s].ok
        /\ last'.op = "New" /\ last'.ret = "nil" )
        => \A k \in Keys :
             IF k \in DOMAIN want[last.s].m
               THEN Get(AccessorOf(want[last.s].m[k]), cfg'[last'.s].data, k)
                      = Ret(want[last.s].m[k], TRUE)
               ELSE \A g \in Getters : ~Get(g, cfg'[last'.s].data, k).found ]_vars

C3_Witness ==
  /\ last.op = "New" /\ last.ret = "nil"
  /\ \E a \in Stores \ {last.s} :
       /\ cfg[a].made /\ cfg[a].file = "nil" /\ want[a].ok
       /\ DOMAIN want[a].m # {}
  /\ cfg[last.s].data.m # EmptyFcn

\* C4: when a Set or a Finish has returned nil, the file decodes to the
\* map the Config holds, and a New on the path would load that map.
C4_WriteThrough ==
  (last.op \in {"Set", "Finish"} /\ last.ret = "nil")
    => /\ Decode(disk.bytes).err = "nil"
       /\ Decode(disk.bytes).data.m = cfg[last.s].data.m
       /\ ReadFromFile(disk, "none").err = "nil"
       /\ ReadFromFile(disk, "none").data.m = cfg[last.s].data.m

C4_Witness ==
  /\ last.op = "Set" /\ last.ret = "nil"
  /\ Cardinality(DOMAIN cfg[last.s].data.m) = 2
  /\ disk.bytes = Encode(cfg[last.s].data)

\* C5: a Finish on an open Config returns nil, and a Finish that follows
\* it on the same Config returns the already-closed error, makes no system
\* call and changes neither the Config nor the file.
C5_FinishTwice ==
  [][ /\ (last'.op = "Finish" /\ IsOpen(last'.s)) => last'.ret = "nil"
      /\ ( /\ last.op = "Finish" /\ last.ret = "nil"
           /\ last'.op = "Finish" /\ last'.s = last.s )
         => /\ last'.ret = "closed"
            /\ last'.io = << >>
            /\ cfg' = cfg /\ disk' = disk /\ fds' = fds ]_vars

C5_Witness ==
  /\ last.op = "Finish" /\ last.ret = "closed" /\ last.io = << >>
  /\ cfg[last.s].file = "nil"

\* C6 (as claimed): once Finish has returned nil on a Config, the Config
\* never holds an open file handle again.
C6_ClosedIsAbsorbing ==
  [][ \A s \in Stores :
        (cfg[s].made /\ cfg[s].file = "nil") => cfg'[s].file = "nil" ]_vars

\* C7 (as claimed): a Set with a supported value on a Config that Finish
\* has closed returns an error and leaves the map of the Config as it was.
C7_SetAfterCloseKeepsMap ==
  [][ ( /\ last'.op = "Set" /\ Normalize(last'.v).ok
        /\ cfg[last'.s].made /\ cfg[last'.s].file = "nil" )
        => /\ last'.ret # "nil"
           /\ cfg'[last'.s].data = cfg[last'.s].data ]_vars

\* C8 (as claimed): a New on a file that is not empty and does not decode
\* as one map returns an error and no Config.
C8_CorruptFileRejected ==
  (last.op = "New" /\ Len(disk.bytes) > 0 /\ Decode(disk.bytes).err # "nil")
    => (last.ret # "nil" /\ ~cfg[last.s].made)

\* C9: when a Set has returned nil on one Config and a GetAll on another
\* Config of the same path runs next, the GetAll returns nil and a map
\* that holds the key with the converted value, and the map of its Config
\* is the decoded content of the file, so that its accessor finds the key.
C9_GetAllSeesOtherSet ==
  [][ ( /\ last.op = "Set" /\ last.ret = "nil"
        /\ last'.op = "GetAll" /\ last'.s # last.s )
        => /\ last'.ret = "nil"
           /\ last.k \in DOMAIN last'.all
           /\ last'.all[last.k] = Canonical(last.v)
           /\ cfg'[last'.s].data = Decode(disk'.bytes).data
           /\ Get(AccessorOf(Canonical(last.v)), cfg'[last'.s].data, last.k)
                = Ret(Canonical(last.v), TRUE) ]_vars

C9_Witness ==
  /\ last.op = "GetAll" /\ last.ret = "nil"
  /\ \E a \in Stores \ {last.s} :
       /\ IsOpen(a) /\ want[a].ok /\ DOMAIN want[a].m # {}
       /\ disk.bytes = Encode(cfg[a].data)
  /\ DOMAIN last.all # {}

\* C10 (as claimed): the map of a Config shared by threads holds, for every
\* key, the value of the latest Set of that key once that Set has returned
\* nil, whatever Get*, Set and GetAll calls of other threads overlap it.
C10_SetStaysInMemory ==
  \A k \in DOMAIN want[Shared].m :
    /\ Has(cfg[Shared].data, k)
    /\ cfg[Shared].data.m[k] = want[Shared].m[k]

\* C11: when the Complete calls on a Step follow one another, the first
\* returns the error it was given (nil for nil) and by then the final line
\* for that error has been written once; every later call returns an
\* AlreadyCompletedError with the name of the Step, and nothing is written
\* to the output once the first call has returned.
C11_CompleteTwice ==
  [][ /\ (returned' # returned /\ returned'.n = 1)
           => /\ returned'.val = returned'.err
              /\ output'.lines = << FinalLine(step.name, returned'.err) >>
      /\ (returned' # returned /\ returned'.n > 1)
           => returned'.val = AlreadyCompletedError(step.name)
      /\ returned.n >= 1 => output' = output ]_vars

C11_Witness ==
  /\ returned.n = 3 /\ returned.val = AlreadyCompletedError(StepName)
  /\ returned.err = Nil
  /\ Len(output.lines) = 1 /\ output.lines[1][2] = "failed "

\* C12 (as claimed): when Complete calls on a Step overlap, the call that
\* ran the function of onceComplete (the one whose error the goroutine
\* received) returns that error, and every other call returns an
\* AlreadyCompletedError.
C12_OneCompletes ==
  returned.n > 0 =>
    IF returned.ran THEN returned.val = returned.err
    ELSE returned.val = AlreadyCompletedError(step.name)

\* what the step a thread takes from a control point reads or writes of
\* c.data and c.file, and whether that step takes c.mu itself (the steps of
\* flushUnsafeLocked rely on the lock their caller took; Stat and Decode
\* work on the handle readFromFile opened, not on c.file)
Access(label) ==
  CASE label \in {"truncate", "write1", "write2", "sync"} ->
         [fields |-> {"data", "file"}, locks |-> FALSE]
    [] label \in {"idle", "assign"} -> [fields |-> {"data", "file"}, locks |-> TRUE]
    [] label = "copy" -> [fields |-> {"data"}, locks |-> TRUE]
    [] label = "len" -> [fields |-> {"data"}, locks |-> FALSE]
    [] OTHER -> [fields |-> {}, locks |-> FALSE]

\* C13 (as claimed): a thread that is about to read or write c.data or
\* c.file either holds c.mu or takes it in that step, in every operation.
C13_AccessUnderLock ==
  \A t \in Threads :
    Access(pc[t]).fields # {} => (Access(pc[t]).locks \/ mu = t)

\* C14 (as claimed): a Config never has more than one file handle open,
\* and once Finish has closed it (c.file is nil) none of the handles it
\* opened, in New or in a GetAll, is still open.
C14_OneHandle ==
  \A s \in Stores :
    /\ fds[s] <= 1
    /\ (cfg[s].made /\ cfg[s].file = "nil") => fds[s] = 0

\* C15: a Set with a supported value on an open Config with a map returns
\* nil or the error of its flush; when the flush failed (truncate, seek,
\* write or sync), the map holds the converted value all the same, and the
\* matching accessor called next returns it with found = TRUE.
C15_FailedFlushKeepsValue ==
  [][ /\ ( /\ last'.op = "Set" /\ Normalize(last'.v).ok
           /\ IsOpen(last'.s) /\ ~cfg[last'.s].data.nil )
         => /\ last'.ret \in {"nil", "io"}
            /\ last'.ret = "io" =>
                 /\ Has(cfg'[last'.s].data, last'.k)
                 /\ cfg'[last'.s].data.m[last'.k] = Canonical(last'.v)
      /\ ( /\ last.op = "Set" /\ last.ret = "io" /\ IsOpen(last.s)
           /\ last'.op \in Matching(last.v) /\ last'.s = last.s /\ last'.k = last.k )
         => last'.out = Expected(last'.op, last.v) ]_vars

C15_Witness ==
  /\ last.op = "Set" /\ last.ret = "io" /\ IsOpen(last.s)
  /\ last.v = Num("int", 42)
  /\ GetInt(cfg[last.s].data, last.k) = Ret(Num("int", 42), TRUE)
  /\ Decode(disk.bytes).err # "nil"

\* the dynamic type an accessor asks for (a number is stored as float64),
\* and the zero value it returns when it finds none
TagOf(g) ==
  CASE g = "GetString" -> "string"
    [] g = "GetBool" -> "bool"
    [] g \in {"GetInt", "GetFloat64"} -> "float64"
ZeroOf(g) ==
  CASE g = "GetString" -> Str("")
    [] g = "GetBool" -> Bool(FALSE)
    [] g = "GetInt" -> Num("int", 0)
    [] g = "GetFloat64" -> Flt("float64", 0, FALSE)

\* C16: an accessor returns found = TRUE exactly when the key is in the map
\* with a value of the type it asks for (GetString: string, GetInt and
\* GetFloat64: number, GetBool: bool); otherwise it returns the zero value
\* and found = FALSE; it returns no error, makes no system call and changes
\* neither the Config nor the file.
C16_AccessorFound ==
  [][ last'.op \in Getters
        => /\ last'.out.found
                = ( /\ Has(cfg[last'.s].data, last'.k)
                    /\ cfg[last'.s].data.m[last'.k].t = TagOf(last'.op) )
           /\ ~last'.out.found => last'.out.val = ZeroOf(last'.op)
           /\ last'.out.found => last'.out.val.t \in {TagOf(last'.op), "int"}
           /\ last'.ret = "nil" /\ last'.io = << >>
           /\ cfg' = cfg /\ disk' = disk /\ fds' = fds ]_vars

C16_Witness ==
  /\ last.op = "GetBool" /\ last.out = Ret(Bool(FALSE), FALSE)
  /\ Has(cfg[last.s].data, last.k) /\ cfg[last.s].data.m[last.k].t = "float64"
  /\ \E k \in Keys : GetBool(cfg[last.s].data, k).found

\* C17: a GetAll that fails (the file cannot be opened or read, or its
\* content does not decode) returns its error and no map, leaves c.data,
\* c.file and the file content as they were, and has closed the handle it
\* opened, so that the Config holds as many open handles as before.
C17_FailedGetAllKeepsConfig ==
  [][ (last'.op = "GetAll" /\ last'.ret # "nil")
        => /\ last'.ret \in {"io", "decode"}
           /\ last'.all = EmptyFcn
           /\ cfg' = cfg /\ fds' = fds /\ disk'.bytes = disk.bytes
           /\ \/ last'.io = << "open" >>
              \/ last'.io[Len(last'.io)] = "close" ]_vars

C17_Witness ==
  /\ last.op = "GetAll" /\ last.ret = "decode"
  /\ last.io = << "open", "stat", "read", "close" >>
  /\ IsOpen(last.s) /\ fds[last.s] = 1
  /\ cfg[last.s].data.m # EmptyFcn

\* C18: when a Complete call has returned, the first one above all, the
\* goroutine has written the final line for the error it received (the
\* error of the call that ran the function of onceComplete) and has
\* ended; that line is the last thing written, and no frame or line is
\* written afterwards.
C18_LineBeforeReturn ==
  [][ /\ returned'.n > 0
           => /\ output'.lines = << FinalLine(step.name, loop'.err) >>
              /\ output'.last = "line"
              /\ loop'.pc = "exited"
              /\ returned'.ran => returned'.err = loop'.err
      /\ returned.n > 0 => output' = output ]_vars

C18_Witness ==
  /\ returned.ran /\ returned.err # Nil /\ returned.val = returned.err
  /\ output.frames = MaxFrames
  /\ output.lines = << << "\r", "failed ", StepName, " - error: ", "test error", "\n" >> >>
  /\ \E c \in Callers : call[c].pc = "do"

\* C19 (as claimed): when the first Complete call on a Step has returned,
\* the output holds the final line for its error and nothing else: the
\* goroutine wrote no frame before it.
C19_OnlyFinalLine ==
  returned.n = 1 =>
    /\ output.frames = 0
    /\ output.lines = << FinalLine(step.name, returned.err) >>

\* C20: under fair scheduling every Complete call that was made returns,
\* once a Complete call was made the goroutine closes chDone and ends, and
\* as long as no Complete call is made the goroutine writes frame after
\* frame.
C20_Terminates ==
  /\ \A c \in Callers : (call[c].pc # "idle") ~> (call[c].pc = "idle")
  /\ (calls > 0) ~> (step.chDone = "closed" /\ loop.pc = "exited")
  /\ [](calls = 0) => []<><<LoopDraw>>_vars

C20_Witness ==
  /\ calls = MaxCalls /\ \A c \in Callers : call[c].pc = "idle"
  /\ step.chDone = "closed" /\ loop.pc = "exited"
  /\ output.frames > 0
====
